---- MODULE Spec2Model ----
(***************************************************************************)
(* A model of the request construction pipeline of grequests               *)
(* (src/request.go): buildRequest and the functions it calls.              *)
(*                                                                         *)
(* Strings are sequences of one-character tokens.  The token "http://x/p"  *)
(* stands for an opaque scheme://host/path prefix, "%" for a malformed     *)
(* percent escape ("%zz") and "<DEL>" for an ASCII control character.      *)
(* A nilable Go value is a sequence: <<>> is nil and <<v>> is the value v. *)
(***************************************************************************)
EXTENDS Integers, Sequences, FiniteSets, TLC

\* ------------------------------------------------------------------ bounds

\* longest Files list the callers of the model pass
MaxFiles == 2
\* longest Auth credential list the callers of the model pass
MaxAuth == 3
\* most key=value pairs in the query of an input URL
MaxQuery == 2

\* ------------------------------------------------------ strings as tokens

None == <<>>

Some(x) == <<x>>

IsNil(o) == Len(o) = 0

Val(o) == o[1]

Range(s) == {s[i] : i \in 1..Len(s)}

\* position of the first occurrence of token t in s, 0 when absent
RECURSIVE IndexFrom(_, _, _)
IndexFrom(s, t, i) ==
    IF i > Len(s) THEN 0
    ELSE IF s[i] = t THEN i
    ELSE IndexFrom(s, t, i + 1)

Index(s, t) == IndexFrom(s, t, 1)

Count(s, t) == Cardinality({i \in 1..Len(s) : s[i] = t})

CutAt(s, i) ==
    IF i = 0 THEN [before |-> s, after |-> <<>>, found |-> FALSE]
    ELSE [before |-> SubSeq(s, 1, i - 1),
          after |-> SubSeq(s, i + 1, Len(s)),
          found |-> TRUE]

\* strings.Cut: the text before and after the first sep
Cut(s, sep) == CutAt(s, Index(s, sep))

HasPrefixAt(s, i, old) ==
    /\ i + Len(old) - 1 <= Len(s)
    /\ SubSeq(s, i, i + Len(old) - 1) = old

\* strings.Replace(s, old, "", -1) for a non-empty old: every non-overlapping
\* occurrence of old, left to right, is removed
RECURSIVE RemoveAllFrom(_, _, _)
RemoveAllFrom(s, old, i) ==
    IF i > Len(s) THEN <<>>
    ELSE IF HasPrefixAt(s, i, old) THEN RemoveAllFrom(s, old, i + Len(old))
    ELSE <<s[i]>> \o RemoveAllFrom(s, old, i + 1)

RemoveAll(s, old) == RemoveAllFrom(s, old, 1)

\* strings.Join of two strings
Join2(a, b, sep) == a \o sep \o b

\* byte order of the tokens, for the sort in url.Values.Encode
TokenRank(t) ==
    CASE t = " " -> 1
      [] t = "#" -> 2
      [] t = "%" -> 3
      [] t = "&" -> 4
      [] t = "+" -> 5
      [] t = "0" -> 6
      [] t = "1" -> 7
      [] t = "2" -> 8
      [] t = "=" -> 9
      [] t = "?" -> 10
      [] t = "a" -> 11
      [] t = "b" -> 12
      [] t = "http://x/p" -> 13
      [] t \in {"%2B", "%23", "%26", "%3D", "%3F", "%25"} -> 3
      [] OTHER -> 14

RECURSIVE StrLess(_, _)
StrLess(a, b) ==
    IF Len(b) = 0 THEN FALSE
    ELSE IF Len(a) = 0 THEN TRUE
    ELSE IF a[1] = b[1] THEN StrLess(Tail(a), Tail(b))
    ELSE TokenRank(a[1]) < TokenRank(b[1])

MinString(S) == CHOOSE x \in S : \A y \in S \ {x} : StrLess(x, y)

\* the elements of a finite set of strings in ascending order
RECURSIVE SortStrings(_)
SortStrings(S) ==
    IF S = {} THEN <<>>
    ELSE <<MinString(S)>> \o SortStrings(S \ {MinString(S)})

\* ------------------------------------------------------------ net/url

\* url.QueryEscape of one character: a space becomes "+", a reserved
\* character its percent escape, anything else stays
EscapeToken(t) ==
    CASE t = " " -> "+"
      [] t = "+" -> "%2B"
      [] t = "#" -> "%23"
      [] t = "&" -> "%26"
      [] t = "=" -> "%3D"
      [] t = "?" -> "%3F"
      [] t = "%" -> "%25"
      [] OTHER -> t

QueryEscape(s) == [i \in 1..Len(s) |-> EscapeToken(s[i])]

\* url.QueryUnescape of one character
UnescapeToken(t) ==
    CASE t = "+" -> " "
      [] t = "%2B" -> "+"
      [] t = "%23" -> "#"
      [] t = "%26" -> "&"
      [] t = "%3D" -> "="
      [] t = "%3F" -> "?"
      [] t = "%25" -> "%"
      [] OTHER -> t

\* url.QueryUnescape: fails on a malformed percent escape
QueryUnescape(s) ==
    [s |-> [i \in 1..Len(s) |-> UnescapeToken(s[i])],
     err |-> IF "%" \in Range(s) THEN "invalid URL escape" ELSE "nil"]

\* url.Values: keys present are the DOMAIN, each with its list of values
EmptyValues == [k \in {} |-> <<>>]

ValuesSet(v, key, value) ==
    [k \in DOMAIN v \cup {key} |-> IF k = key THEN <<value>> ELSE v[k]]

ValuesAdd(v, key, value) ==
    [k \in DOMAIN v \cup {key} |->
        IF k = key
        THEN (IF key \in DOMAIN v THEN v[key] ELSE <<>>) \o <<value>>
        ELSE v[k]]

\* url.parseQuery: the pairs of the raw query in order; an empty segment is
\* skipped, a pair with a malformed escape is skipped and the first such
\* error is returned with what was parsed
RECURSIVE parseQuery(_, _, _)
parsePair(m, key, value, rest, err) ==
    IF key.err # "nil"
    THEN parseQuery(m, rest, IF err = "nil" THEN key.err ELSE err)
    ELSE IF value.err # "nil"
    THEN parseQuery(m, rest, IF err = "nil" THEN value.err ELSE err)
    ELSE parseQuery(ValuesAdd(m, key.s, value.s), rest, err)

parseKeyValue(m, kv, rest, err) ==
    parsePair(m, QueryUnescape(kv.before), QueryUnescape(kv.after), rest, err)

parseSegment(m, seg, err) ==
    IF Len(seg.before) = 0 THEN parseQuery(m, seg.after, err)
    ELSE parseKeyValue(m, Cut(seg.before, "="), seg.after, err)

parseQuery(m, query, err) ==
    IF Len(query) = 0 THEN [values |-> m, err |-> err]
    ELSE parseSegment(m, Cut(query, "&"), err)

ParseQuery(query) == parseQuery(EmptyValues, query, "nil")

RECURSIVE EncodeKey(_, _, _)
EncodeKey(key, vs, i) ==
    IF i > Len(vs) THEN <<>>
    ELSE (IF i > 1 THEN <<"&">> ELSE <<>>)
         \o QueryEscape(key) \o <<"=">> \o QueryEscape(vs[i])
         \o EncodeKey(key, vs, i + 1)

AppendPart(sofar, part) ==
    IF Len(part) = 0 THEN sofar
    ELSE IF Len(sofar) = 0 THEN part
    ELSE sofar \o <<"&">> \o part

RECURSIVE EncodeKeys(_, _, _)
EncodeKeys(v, keys, sofar) ==
    IF Len(keys) = 0 THEN sofar
    ELSE EncodeKeys(v, Tail(keys),
                    AppendPart(sofar, EncodeKey(keys[1], v[keys[1]], 1)))

\* url.Values.Encode: "k=v" pairs joined by "&", sorted by key
ValuesEncode(v) == EncodeKeys(v, SortStrings(DOMAIN v), <<>>)

NilURL ==
    [base |-> <<>>, RawQuery |-> <<>>, ForceQuery |-> FALSE, Fragment |-> <<>>]

\* url.parse of the text before the fragment: a control character is an
\* error; a single "?" at the end forces an empty query, else the query is
\* what follows the first "?"; a malformed escape in the path is an error
parseRest(rest, q, force) ==
    IF "<DEL>" \in Range(rest)
    THEN [u |-> NilURL, err |-> "invalid control character in URL"]
    ELSE IF "%" \in Range(q.before)
    THEN [u |-> NilURL, err |-> "invalid URL escape"]
    ELSE [u |-> [base |-> IF force THEN SubSeq(rest, 1, Len(rest) - 1) ELSE q.before,
                 RawQuery |-> IF force THEN <<>> ELSE q.after,
                 ForceQuery |-> force,
                 Fragment |-> <<>>],
          err |-> "nil"]

\* url.URL.setFragment: a malformed escape in the fragment is an error
setFragment(p, frag) ==
    IF p.err # "nil" THEN p
    ELSE IF "%" \in Range(frag) THEN [u |-> NilURL, err |-> "invalid URL escape"]
    ELSE [u |-> [p.u EXCEPT !.Fragment = frag], err |-> "nil"]

parseCut(f) ==
    setFragment(parseRest(f.before, Cut(f.before, "?"),
                          /\ Len(f.before) > 0
                          /\ f.before[Len(f.before)] = "?"
                          /\ Count(f.before, "?") = 1),
                f.after)

\* url.Parse: the fragment is cut off at the first "#"
URLParse(rawURL) == parseCut(Cut(rawURL, "#"))

\* (*url.URL).String
URLString(u) ==
    u.base
    \o (IF u.ForceQuery \/ Len(u.RawQuery) > 0 THEN <<"?">> \o u.RawQuery ELSE <<>>)
    \o (IF Len(u.Fragment) > 0 THEN <<"#">> \o u.Fragment ELSE <<>>)

\* ----------------------------------------------------- URL/query merger

addQueryParams(parsedURL, parsedQuery) ==
    Join2(RemoveAll(URLString(parsedURL), <<"?">> \o parsedURL.RawQuery),
          ValuesEncode(parsedQuery), <<"?">>)

\* the loop of buildURLParams: Set of every entry of the map (the order of
\* the iteration does not matter, the keys are distinct)
RECURSIVE SetAll(_, _, _)
SetAll(v, params, keys) ==
    IF keys = {} THEN v
    ELSE LET k == CHOOSE x \in keys : TRUE
         IN  SetAll(ValuesSet(v, <<k>>, params[k]), params, keys \ {k})

mergeParams(parsedURL, q, params) ==
    IF q.err # "nil" THEN [url |-> <<>>, err |-> "nil"]
    ELSE [url |-> addQueryParams(parsedURL, SetAll(q.values, params, DOMAIN params)),
          err |-> "nil"]

parsedParams(p, params) ==
    IF p.err # "nil" THEN [url |-> <<>>, err |-> p.err]
    ELSE mergeParams(p.u, ParseQuery(p.u.RawQuery), params)

buildURLParams(userURL, params) == parsedParams(URLParse(userURL), params)

RECURSIVE AddEach(_, _, _, _)
AddEach(v, key, vs, i) ==
    IF i > Len(vs) THEN v
    ELSE AddEach(ValuesAdd(v, key, vs[i]), key, vs, i + 1)

\* the loops of buildURLStruct: Add of every value under every key
RECURSIVE AddAll(_, _, _)
AddAll(v, queryStruct, keys) ==
    IF keys = {} THEN v
    ELSE LET k == CHOOSE x \in keys : TRUE
         IN  AddAll(AddEach(v, k, queryStruct[k], 1), queryStruct, keys \ {k})

\* query.Values of the structured query object: a value that is no struct
\* is an error
queryValues(URLStruct) ==
    IF URLStruct.isStruct THEN [values |-> URLStruct.fields, err |-> "nil"]
    ELSE [values |-> EmptyValues, err |-> "query: Values() expects struct input"]

mergeStruct(parsedURL, q, s) ==
    IF q.err # "nil" THEN [url |-> <<>>, err |-> q.err]
    ELSE IF s.err # "nil" THEN [url |-> <<>>, err |-> s.err]
    ELSE [url |-> addQueryParams(parsedURL, AddAll(q.values, s.values, DOMAIN s.values)),
          err |-> "nil"]

parsedStruct(p, URLStruct) ==
    IF p.err # "nil" THEN [url |-> <<>>, err |-> p.err]
    ELSE mergeStruct(p.u, ParseQuery(p.u.RawQuery), queryValues(URLStruct))

buildURLStruct(userURL, URLStruct) == parsedStruct(URLParse(userURL), URLStruct)

\* ------------------------------------------------------------ net/http

\* textproto.CanonicalMIMEHeaderKey
CanonicalKey(k) ==
    CASE k = "content-type" -> "Content-Type"
      [] k = "x-a" -> "X-A"
      [] OTHER -> k

EmptyHeader == [k \in {} |-> <<>>]

\* http.Header.Set: the key is canonicalised, the values replaced
HeaderSet(h, key, value) ==
    [k \in DOMAIN h \cup {CanonicalKey(key)} |->
        IF k = CanonicalKey(key) THEN <<value>> ELSE h[k]]

\* http.Header.Add: the key is canonicalised, the value appended
HeaderAdd(h, key, value) ==
    [k \in DOMAIN h \cup {CanonicalKey(key)} |->
        IF k = CanonicalKey(key)
        THEN (IF k \in DOMAIN h THEN h[k] ELSE <<>>) \o <<value>>
        ELSE h[k]]

HeaderValues(h, key) == IF key \in DOMAIN h THEN h[key] ELSE <<>>

NoBody == [kind |-> "NoBody"]

\* the host of a parsed URL
HostOf(u) == IF Len(u.base) > 0 /\ u.base[1] = "http://x/p" THEN "x" ELSE ""

newRequest(p, method, rawURL, body) ==
    IF p.err # "nil" THEN [req |-> None, err |-> p.err]
    ELSE [req |-> Some([Method |-> method,
                        URL |-> rawURL,
                        Host |-> HostOf(p.u),
                        Header |-> EmptyHeader,
                        Cookie |-> <<>>,
                        Body |-> body,
                        ctx |-> "background"]),
          err |-> "nil"]

\* http.NewRequest: the URL is parsed, a nil body is no body
NewRequest(method, rawURL, body) == newRequest(URLParse(rawURL), method, rawURL, body)

\* mime.TypeByExtension
TypeByExtension(fileName) ==
    CASE fileName = "a.txt" -> "text/plain; charset=utf-8"
      [] OTHER -> ""

\* strconv.Itoa, of the positions a Files list can have
Itoa(n) ==
    CASE n = 1 -> "1" [] n = 2 -> "2" [] n = 3 -> "3" [] n = 4 -> "4"
      [] n = 5 -> "5" [] n = 6 -> "6" [] n = 7 -> "7" [] n = 8 -> "8"
      [] OTHER -> "9"

\* quoteEscaper.Replace: a backslash and a double quote get a backslash
escapeQuotes(s) ==
    CASE s = "q\"" -> "q\\\""
      [] OTHER -> s

\* ------------------------------------------------------ body encoder

\* the result of a request constructor: the request or the error, the
\* content streams as the constructor left them, and whether it panicked
Built(r, st) == [req |-> r.req, err |-> r.err, streams |-> st, panic |-> FALSE]

Failed(e, st) == [req |-> None, err |-> e, streams |-> st, panic |-> FALSE]

Panicked(st) == [req |-> None, err |-> "nil", streams |-> st, panic |-> TRUE]

\* the end of a constructor: the error of http.NewRequest, or the request
\* with req.Header.Set("Content-Type", value)
setContentType(r, value, st) ==
    IF r.err # "nil" THEN Failed(r.err, st)
    ELSE Built([req |-> Some([Val(r.req) EXCEPT
                                !.Header = HeaderSet(@, "Content-Type", value)]),
                err |-> "nil"], st)

\* the same with req.Header.Add("Content-Type", value)
addContentType(r, value, st) ==
    IF r.err # "nil" THEN Failed(r.err, st)
    ELSE Built([req |-> Some([Val(r.req) EXCEPT
                                !.Header = HeaderAdd(@, "Content-Type", value)]),
                err |-> "nil"], st)

\* the reader of createBasicJSONRequest and createBasicXMLRequest: a string
\* or a byte slice is used as it is, any other value is marshalled
payloadReader(payload, format) ==
    CASE payload = "string" -> [body |-> [kind |-> format, bytes |-> "verbatim string"],
                                err |-> "nil"]
      [] payload = "bytes" -> [body |-> [kind |-> format, bytes |-> "verbatim bytes"],
                               err |-> "nil"]
      [] payload = "unmarshalable" -> [body |-> NoBody, err |-> "marshal error"]
      [] OTHER -> [body |-> [kind |-> format, bytes |-> "marshalled"], err |-> "nil"]

\* a marshal error ends the constructor before http.NewRequest
readerRequest(reader, httpMethod, userURL, contentType, st) ==
    IF reader.err # "nil" THEN Failed(reader.err, st)
    ELSE setContentType(NewRequest(httpMethod, userURL, reader.body), contentType, st)

\* createBasicJSONRequest without its req.Header.Set("Content-Type", ...)
createBasicJSONRequestNoContentType(httpMethod, userURL, opts, st) ==
    IF payloadReader(opts.JSON, "json").err # "nil"
    THEN Failed(payloadReader(opts.JSON, "json").err, st)
    ELSE Built(NewRequest(httpMethod, userURL, payloadReader(opts.JSON, "json").body), st)

createBasicJSONRequest(httpMethod, userURL, opts, st) ==
    readerRequest(payloadReader(opts.JSON, "json"), httpMethod, userURL,
                  "application/json", st)

createBasicXMLRequest(httpMethod, userURL, opts, st) ==
    readerRequest(payloadReader(opts.XML, "xml"), httpMethod, userURL,
                  "application/xml", st)

\* the map as url.Values, one value a key
RECURSIVE FromMap(_, _, _)
FromMap(v, m, keys) ==
    IF keys = {} THEN v
    ELSE LET k == CHOOSE x \in keys : TRUE
         IN  FromMap(ValuesSet(v, <<k>>, m[k]), m, keys \ {k})

encodePostValues(postValues) ==
    ValuesEncode(FromMap(EmptyValues, postValues, DOMAIN postValues))

createBasicRequest(httpMethod, userURL, opts, st) ==
    setContentType(NewRequest(httpMethod, userURL,
                              [kind |-> "form", bytes |-> encodePostValues(Val(opts.Data))]),
                   "application/x-www-form-urlencoded", st)

\* the part createMultiPartPostRequest writes for entry i: f is the loop's
\* copy of the entry, so the file name it fills in stays in the copy
filePart(files, i) ==
    LET f == files[i]
        fieldName == IF f.FieldName # "" THEN f.FieldName
                     ELSE IF Len(files) > 1 THEN "file" \o Itoa(i)
                     ELSE "file"
        fileName == IF f.FileMime # "" /\ f.FileName = "" THEN "filename"
                    ELSE f.FileName
    IN  IF f.FileMime # ""
        THEN [name |-> escapeQuotes(fieldName), filename |-> escapeQuotes(fileName),
              contentType |-> f.FileMime]
        ELSE [name |-> escapeQuotes(fieldName), filename |-> escapeQuotes(f.FileName),
              contentType |-> "application/octet-stream"]

\* the loop over ro.Files of createMultiPartPostRequest, from entry i on
RECURSIVE copyFiles(_, _, _, _)
copyFiles(files, i, st, parts) ==
    IF i > Len(files) THEN [err |-> "nil", streams |-> st, parts |-> parts]
    ELSE IF files[i].FileContents = "nil"
    THEN [err |-> "grequests: Pointer FileContents cannot be nil",
          streams |-> st, parts |-> parts]
    ELSE LET copied == [st EXCEPT ![i].copies = @ + 1]
             closed == [copied EXCEPT ![i].closes = @ + 1]
         IN  IF files[i].FileContents = "copy fails"
             THEN [err |-> "copy error", streams |-> copied, parts |-> parts]
             ELSE IF files[i].FileContents = "close fails"
             THEN [err |-> "close error", streams |-> closed, parts |-> parts]
             ELSE copyFiles(files, i + 1, closed, Append(parts, filePart(files, i)))

\* after the loop: the plain fields of ro.Data, the closing boundary, the
\* request and its Content-Type
multipartRequest(c, httpMethod, userURL, fields) ==
    IF c.err # "nil" THEN Failed(c.err, c.streams)
    ELSE addContentType(NewRequest(httpMethod, userURL,
                                   [kind |-> "multipart", parts |-> c.parts,
                                    fields |-> fields]),
                        "multipart/form-data; boundary", c.streams)

createMultiPartPostRequest(httpMethod, userURL, opts, st) ==
    multipartRequest(copyFiles(Val(opts.Files), 1, st, <<>>), httpMethod, userURL,
                     IF IsNil(opts.Data) THEN [k \in {} |-> <<>>] ELSE Val(opts.Data))

\* the stream of the entry as the raw body: an absent stream is a nil body
rawFileRequest(f, httpMethod, userURL, st) ==
    setContentType(NewRequest(httpMethod, userURL,
                              IF f.FileContents = "nil" THEN NoBody
                              ELSE [kind |-> "stream", file |-> 1]),
                   TypeByExtension(f.FileName), st)

\* any verb but POST takes ro.Files[0]: with no entry at all, the index is
\* out of range
createFileUploadRequest(httpMethod, userURL, opts, st) ==
    IF httpMethod = "POST" THEN createMultiPartPostRequest(httpMethod, userURL, opts, st)
    ELSE IF Len(Val(opts.Files)) = 0 THEN Panicked(st)
    ELSE rawFileRequest(Val(opts.Files)[1], httpMethod, userURL, st)

\* buildHTTPRequest with the Files check moved before the XML check
buildHTTPRequestFilesBeforeXML(httpMethod, userURL, opts, st) ==
    IF opts.RequestBody # "nil"
    THEN [encoder |-> "RequestBody",
          out |-> Built(NewRequest(httpMethod, userURL, [kind |-> "raw"]), st)]
    ELSE IF opts.JSON # "nil"
    THEN [encoder |-> "JSON",
          out |-> createBasicJSONRequest(httpMethod, userURL, opts, st)]
    ELSE IF ~IsNil(opts.Files)
    THEN [encoder |-> "Files",
          out |-> createFileUploadRequest(httpMethod, userURL, opts, st)]
    ELSE IF opts.XML # "nil"
    THEN [encoder |-> "XML",
          out |-> createBasicXMLRequest(httpMethod, userURL, opts, st)]
    ELSE IF ~IsNil(opts.Data)
    THEN [encoder |-> "Data",
          out |-> createBasicRequest(httpMethod, userURL, opts, st)]
    ELSE [encoder |-> "none",
          out |-> Built(NewRequest(httpMethod, userURL, NoBody), st)]

\* the chain of nil checks of buildHTTPRequest: the constructor that runs
\* and what it returns
buildHTTPRequest(httpMethod, userURL, opts, st) ==
    IF opts.RequestBody # "nil"
    THEN [encoder |-> "RequestBody",
          out |-> Built(NewRequest(httpMethod, userURL, [kind |-> "raw"]), st)]
    ELSE IF opts.JSON # "nil"
    THEN [encoder |-> "JSON",
          out |-> createBasicJSONRequest(httpMethod, userURL, opts, st)]
    ELSE IF opts.XML # "nil"
    THEN [encoder |-> "XML",
          out |-> createBasicXMLRequest(httpMethod, userURL, opts, st)]
    ELSE IF ~IsNil(opts.Files)
    THEN [encoder |-> "Files",
          out |-> createFileUploadRequest(httpMethod, userURL, opts, st)]
    ELSE IF ~IsNil(opts.Data)
    THEN [encoder |-> "Data",
          out |-> createBasicRequest(httpMethod, userURL, opts, st)]
    ELSE [encoder |-> "none",
          out |-> Built(NewRequest(httpMethod, userURL, NoBody), st)]

\* ---------------------------------------------------- request mutator

\* the loop of addHTTPHeaders over ro.Headers, in the order the map
\* iteration happens to take
RECURSIVE setHeaders(_, _, _)
setHeaders(h, headers, order) ==
    IF Len(order) = 0 THEN h
    ELSE setHeaders(HeaderSet(h, order[1], headers[order[1]]), headers, Tail(order))

\* ro.Auth[0] and ro.Auth[1] of a credential list with fewer than two
\* entries are out of range
addHTTPHeadersPanics(opts) == ~IsNil(opts.Auth) /\ Len(Val(opts.Auth)) < 2

SetIf(cond, h, key, value) == IF cond THEN HeaderSet(h, key, value) ELSE h

basicAuth(auth) == <<"Basic", auth[1], auth[2]>>

addHTTPHeaders(opts, r, order) ==
    [r EXCEPT
       !.Header =
           SetIf(opts.IsAjax,
                 SetIf(~IsNil(opts.Auth),
                       HeaderSet(setHeaders(@, opts.Headers, order), "User-Agent",
                                 IF opts.UserAgent # "" THEN opts.UserAgent
                                 ELSE "GRequests"),
                       "Authorization", basicAuth(Val(opts.Auth))),
                 "X-Requested-With", "XMLHttpRequest"),
       !.Host = IF opts.Host # "" THEN opts.Host ELSE @]

addCookies(opts, r) == [r EXCEPT !.Cookie = @ \o opts.Cookies]

\* the orders in which a range over a map with these keys can run
Orders(keys) ==
    {o \in [1..Cardinality(keys) -> keys] : \A i, j \in DOMAIN o : i # j => o[i] # o[j]}

\* --------------------------------------------------- client builder

tlsHandshakeTimeout == 10

dialTimeout == 30

dialKeepAlive == 30

requestTimeout == 90

\* dontUseDefaultClient without the case of ro.LocalAddr
dontUseDefaultClientNoLocalAddr(opts) ==
    \/ opts.InsecureSkipVerify = TRUE
    \/ opts.DisableCompression = TRUE
    \/ Cardinality(DOMAIN opts.Proxies) # 0
    \/ opts.TLSHandshakeTimeout # 0
    \/ opts.DialTimeout # 0
    \/ opts.DialKeepAlive # 0
    \/ Len(opts.Cookies) # 0
    \/ opts.UseCookieJar # FALSE
    \/ opts.RequestTimeout # 0

dontUseDefaultClient(opts) ==
    \/ opts.InsecureSkipVerify = TRUE
    \/ opts.DisableCompression = TRUE
    \/ Cardinality(DOMAIN opts.Proxies) # 0
    \/ opts.TLSHandshakeTimeout # 0
    \/ opts.DialTimeout # 0
    \/ opts.DialKeepAlive # 0
    \/ Len(opts.Cookies) # 0
    \/ opts.UseCookieJar # FALSE
    \/ opts.RequestTimeout # 0
    \/ opts.LocalAddr # "nil"

\* a client the pipeline did not build: only its identity is known
OpaqueClient(id) == [id |-> id, Jar |-> "unknown", Timeout |-> 0,
                     Transport |-> <<>>, CheckRedirect |-> "unknown"]

createHTTPTransport(opts) ==
    [Proxy |-> opts.Proxies,
     DialTimeout |-> opts.DialTimeout,
     DialKeepAlive |-> opts.DialKeepAlive,
     LocalAddr |-> opts.LocalAddr,
     TLSHandshakeTimeout |-> opts.TLSHandshakeTimeout,
     InsecureSkipVerify |-> opts.InsecureSkipVerify,
     DisableCompression |-> opts.DisableCompression]

\* BuildHTTPClient works on its own copy of the options (a value receiver)
BuildHTTPClient(opts) ==
    LET d == [opts EXCEPT
                !.TLSHandshakeTimeout = IF @ = 0 THEN tlsHandshakeTimeout ELSE @,
                !.DialTimeout = IF @ = 0 THEN dialTimeout ELSE @,
                !.DialKeepAlive = IF @ = 0 THEN dialKeepAlive ELSE @,
                !.RequestTimeout = IF @ = 0 THEN requestTimeout ELSE @]
    IN  IF opts.HTTPClient # "nil" THEN OpaqueClient(opts.HTTPClient)
        ELSE IF ~dontUseDefaultClient(opts) THEN OpaqueClient("http.DefaultClient")
        ELSE [id |-> "built",
              Jar |-> IF ~opts.UseCookieJar THEN "nil"
                      ELSE IF opts.CookieJar # "nil" THEN opts.CookieJar
                      ELSE "cookiejar.New",
              Timeout |-> d.RequestTimeout,
              Transport |-> <<createHTTPTransport(d)>>,
              CheckRedirect |-> "unknown"]

\* the redirect policy is installed on the client that will send
addRedirectFunctionality(client, opts) == [client EXCEPT !.CheckRedirect = "installed"]

\* ------------------------------------------------------------ state

VARIABLES
    httpMethod,   \* the verb buildRequest was called with
    userURL,      \* the URL it was called with
    roIsNil,      \* whether it was called with a nil *RequestOptions
    clientArg,    \* the httpClient argument: "nil" or the session's client
    roAtCall,     \* the caller's RequestOptions as they were at the call
    ro,           \* the RequestOptions behind the pointer ro
    pc,           \* where buildRequest is
    httpClient,   \* the local httpClient, <<>> before it is chosen
    url,          \* the local url
    req,          \* the local req, <<>> while nil
    encoder,      \* the constructor buildHTTPRequest dispatched to
    streams,      \* per Files entry: how often its stream was copied from and closed
    log,          \* the steps taken so far, in order
    resp,         \* the response buildRequest returned
    err           \* the error buildRequest returned

vars == <<httpMethod, userURL, roIsNil, clientArg, roAtCall, ro, pc, httpClient,
          url, req, encoder, streams, log, resp, err>>

inputs == <<httpMethod, userURL, roIsNil, clientArg, roAtCall>>

\* &RequestOptions{}
EmptyOptions ==
    [Data |-> None, Params |-> [k \in {} |-> <<>>], QueryStruct |-> None,
     Files |-> None, JSON |-> "nil", XML |-> "nil", Headers |-> [k \in {} |-> ""],
     InsecureSkipVerify |-> FALSE, DisableCompression |-> FALSE,
     UserAgent |-> "", Host |-> "", Auth |-> None, IsAjax |-> FALSE,
     Cookies |-> <<>>, UseCookieJar |-> FALSE, Proxies |-> [k \in {} |-> ""],
     TLSHandshakeTimeout |-> 0, DialTimeout |-> 0, DialKeepAlive |-> 0,
     RequestTimeout |-> 0, HTTPClient |-> "nil", RequestBody |-> "nil",
     CookieJar |-> "nil", Context |-> "nil", BeforeRequest |-> "nil",
     LocalAddr |-> "nil"]

NoStreams(opts) ==
    [i \in 1..(IF IsNil(opts.Files) THEN 0 ELSE Len(Val(opts.Files))) |->
        [copies |-> 0, closes |-> 0]]

\* the state at the entry of buildRequest, for a call with these arguments;
\* a nil ro is replaced by &RequestOptions{}
Call(verbs, urls, options, clients) ==
    /\ httpMethod \in verbs
    /\ userURL \in urls
    /\ roIsNil \in BOOLEAN
    /\ clientArg \in clients
    /\ roAtCall \in options
    /\ roIsNil => roAtCall = EmptyOptions
    /\ ro = roAtCall
    /\ pc = "start"
    /\ httpClient = None
    /\ url = userURL
    /\ req = None
    /\ encoder = "not run"
    /\ streams = NoStreams(roAtCall)
    /\ log = <<>>
    /\ resp = "nil"
    /\ err = "nil"

\* ---------------------------------------------------- buildRequest

\* return nil, e
ReturnError(e) ==
    /\ pc' = "done"
    /\ resp' = "nil"
    /\ err' = e

\* lines 167-175: an explicit cookie jar forces the jar flag, through the
\* pointer; then the client is the argument or the one BuildHTTPClient gives
SelectClient ==
    /\ pc = "start"
    /\ ro' = IF ro.CookieJar # "nil" THEN [ro EXCEPT !.UseCookieJar = TRUE] ELSE ro
    /\ httpClient' = IF clientArg # "nil" THEN Some(OpaqueClient(clientArg))
                     ELSE Some(BuildHTTPClient(ro'))
    /\ pc' = "url"
    /\ log' = Append(log, "client")
    /\ UNCHANGED <<inputs, url, req, encoder, streams, resp, err>>

\* the url and the error of lines 178-187: at most one of the merges runs
finalURL(u, opts) ==
    IF Cardinality(DOMAIN opts.Params) # 0 THEN buildURLParams(u, opts.Params)
    ELSE IF ~IsNil(opts.QueryStruct) THEN buildURLStruct(u, Val(opts.QueryStruct))
    ELSE [url |-> u, err |-> "nil"]

FinalizeWith(r) ==
    /\ url' = r.url
    /\ IF r.err # "nil" THEN ReturnError(r.err)
       ELSE /\ pc' = "build"
            /\ UNCHANGED <<resp, err>>

\* lines 177-187
FinalizeURL ==
    /\ pc = "url"
    /\ FinalizeWith(finalURL(url, ro))
    /\ log' = Append(log, "url")
    /\ UNCHANGED <<inputs, ro, httpClient, req, encoder, streams>>

BuildWith(b) ==
    /\ encoder' = b.encoder
    /\ streams' = b.out.streams
    /\ req' = b.out.req
    /\ IF b.out.panic
       THEN /\ pc' = "panic"
            /\ UNCHANGED <<resp, err>>
       ELSE IF b.out.err # "nil"
       THEN ReturnError(b.out.err)
       ELSE /\ pc' = "headers"
            /\ UNCHANGED <<resp, err>>

\* lines 190-194
BuildRawRequest ==
    /\ pc = "build"
    /\ BuildWith(buildHTTPRequest(httpMethod, url, ro, streams))
    /\ log' = Append(log, "build")
    /\ UNCHANGED <<inputs, ro, httpClient, url>>

\* line 197
ApplyHeaders ==
    /\ pc = "headers"
    /\ \E order \in Orders(DOMAIN ro.Headers) :
          IF addHTTPHeadersPanics(ro)
          THEN /\ pc' = "panic"
               /\ req' = Some([Val(req) EXCEPT
                                 !.Header = setHeaders(@, ro.Headers, order)])
          ELSE /\ pc' = "cookies"
               /\ req' = Some(addHTTPHeaders(ro, Val(req), order))
    /\ log' = Append(log, "headers")
    /\ UNCHANGED <<inputs, ro, httpClient, url, encoder, streams, resp, err>>

\* line 198
AttachCookies ==
    /\ pc = "cookies"
    /\ req' = Some(addCookies(ro, Val(req)))
    /\ pc' = "redirect"
    /\ log' = Append(log, "cookies")
    /\ UNCHANGED <<inputs, ro, httpClient, url, encoder, streams, resp, err>>

\* line 200
InstallRedirectPolicy ==
    /\ pc = "redirect"
    /\ httpClient' = Some(addRedirectFunctionality(Val(httpClient), ro))
    /\ pc' = "context"
    /\ log' = Append(log, "redirect")
    /\ UNCHANGED <<inputs, ro, url, req, encoder, streams, resp, err>>

\* lines 202-204
AttachContext ==
    /\ pc = "context"
    /\ req' = IF ro.Context # "nil" THEN Some([Val(req) EXCEPT !.ctx = ro.Context])
              ELSE req
    /\ log' = IF ro.Context # "nil" THEN Append(log, "context") ELSE log
    /\ pc' = "hook"
    /\ UNCHANGED <<inputs, ro, httpClient, url, encoder, streams, resp, err>>

\* what the caller's hook returns
hookError(hook) == IF hook = "reject" THEN "hook error" ELSE "nil"

\* the hook's error dropped: the request is sent whatever the hook returns
InvokeHookIgnoringError ==
    /\ pc = "hook"
    /\ pc' = "send"
    /\ log' = IF ro.BeforeRequest # "nil" THEN Append(log, "hook") ELSE log
    /\ UNCHANGED <<inputs, ro, httpClient, url, req, encoder, streams, resp, err>>

\* lines 206-210
InvokeHook ==
    /\ pc = "hook"
    /\ IF ro.BeforeRequest # "nil" /\ hookError(ro.BeforeRequest) # "nil"
       THEN ReturnError(hookError(ro.BeforeRequest))
       ELSE /\ pc' = "send"
            /\ UNCHANGED <<resp, err>>
    /\ log' = IF ro.BeforeRequest # "nil" THEN Append(log, "hook") ELSE log
    /\ UNCHANGED <<inputs, ro, httpClient, url, req, encoder, streams>>

\* what httpClient.Do can return for the request: a response or a send
\* error; a URL with no scheme and host cannot be sent
DoOutcomes(r) == IF r.Host = "" /\ HostOf(URLParse(r.URL).u) = ""
                 THEN {"send error"}
                 ELSE {"nil", "send error"}

\* line 212: the transport reads a stream body and closes it
Send ==
    /\ pc = "send"
    /\ \E e \in DoOutcomes(Val(req)) :
          /\ err' = e
          /\ resp' = IF e = "nil" THEN "response" ELSE "nil"
    /\ streams' = IF Val(req).Body.kind = "stream"
                  THEN [streams EXCEPT ![1] = [copies |-> @.copies + 1,
                                               closes |-> @.closes + 1]]
                  ELSE streams
    /\ pc' = "done"
    /\ log' = Append(log, "send")
    /\ UNCHANGED <<inputs, ro, httpClient, url, req, encoder>>

Next ==
    \/ SelectClient
    \/ FinalizeURL
    \/ BuildRawRequest
    \/ ApplyHeaders
    \/ AttachCookies
    \/ InstallRedirectPolicy
    \/ AttachContext
    \/ InvokeHook
    \/ Send

\* ------------------------------------------------------ the calls made

GoodURL == <<"http://x/p">>

\* a URL with a control character in it
BadURL == <<"http://x/p", "<DEL>">>

QueryPairs == {<<k, "=", v>> : k \in {"a", "b"}, v \in {"0", "2", "%"}}

\* the raw queries of at most n pairs
RECURSIVE RawQueries(_)
RawQueries(n) ==
    IF n = 0 THEN {<<>>}
    ELSE RawQueries(n - 1)
         \cup {q \o (IF Len(q) = 0 THEN <<>> ELSE <<"&">>) \o pr :
                 q \in {x \in RawQueries(n - 1) : Len(x) = 4 * (n - 1) - 1
                                                   \/ (n = 1 /\ Len(x) = 0)},
                 pr \in QueryPairs}

\* URLs with and without a query and a fragment, well-formed and not
URLs ==
    {base \o (IF Len(q) = 0 THEN mark ELSE <<"?">> \o q) \o frag :
        base \in {GoodURL, BadURL},
        q \in RawQueries(MaxQuery),
        mark \in {<<>>, <<"?">>},
        frag \in {<<>>, <<"#", "a">>}}

ParamMaps ==
    UNION {[keys -> {<<"1">>, <<" ">>}] : keys \in SUBSET {"a", "b"}}

QueryStructs ==
    {None,
     Some([isStruct |-> FALSE, fields |-> EmptyValues]),
     Some([isStruct |-> TRUE, fields |-> (<<"a">> :> << <<"1">>, <<"2">> >>)])}

FileUploads ==
    {[FileContents |-> c, FieldName |-> n[1], FileName |-> n[2], FileMime |-> n[3]] :
        c \in {"nil", "ok", "copy fails", "close fails"},
        n \in {<<"", "", "text/plain">>, <<"f", "a.txt", "">>}}

FileLists == UNION {[1..k -> FileUploads] : k \in 0..MaxFiles}

AuthLists ==
    {[i \in 1..k |-> IF i = 1 THEN "user" ELSE IF i = 2 THEN "pass" ELSE "extra"] :
        k \in 0..MaxAuth}

HeaderMaps ==
    UNION {[keys -> {"text/plain", "text/html"}] :
             keys \in SUBSET {"Content-Type", "content-type"}}

Optional(S) == {None} \cup {Some(x) : x \in S}

FormData == [a |-> <<"1">>, b |-> <<" ">>]

\* options that differ in the body fields and the headers
BodyOptions ==
    {[EmptyOptions EXCEPT !.RequestBody = rb, !.JSON = j, !.XML = x,
                          !.Files = f, !.Data = d] :
        rb \in {"nil", "reader"}, j \in {"nil", "value"}, x \in {"nil", "string"},
        f \in Optional(FileLists), d \in Optional({FormData})}
    \cup
    {[EmptyOptions EXCEPT !.JSON = j, !.XML = x, !.Headers = h, !.BeforeRequest = b] :
        j \in {"nil", "string", "bytes", "value", "unmarshalable"},
        x \in {"nil", "string", "bytes", "value", "unmarshalable"},
        h \in HeaderMaps, b \in {"nil", "accept"}}

\* options that differ in the query to merge
URLOptions ==
    {[EmptyOptions EXCEPT !.Params = p, !.QueryStruct = q] :
        p \in ParamMaps, q \in QueryStructs}

\* options that differ in the fields the client is chosen by
ClientOptions ==
    {[EmptyOptions EXCEPT !.InsecureSkipVerify = f[1], !.DisableCompression = f[2],
                          !.UseCookieJar = f[3],
                          !.TLSHandshakeTimeout = t[1], !.DialTimeout = t[2],
                          !.DialKeepAlive = t[3], !.RequestTimeout = t[4],
                          !.Proxies = p, !.Cookies = c, !.LocalAddr = s[1],
                          !.CookieJar = s[2], !.HTTPClient = s[3]] :
        f \in [1..3 -> BOOLEAN], t \in [1..4 -> {0, 5}],
        p \in {[k \in {} |-> ""], [http |-> "proxy"]},
        c \in {<<>>, <<"cookie">>},
        s \in {"nil", "addr"} \X {"nil", "jar"} \X {"nil", "optClient"}}

\* options that differ in what makes the pipeline stop or go on
PipelineOptions ==
    {[EmptyOptions EXCEPT !.JSON = j, !.Files = f, !.Auth = a, !.Context = c,
                          !.BeforeRequest = b, !.CookieJar = s[1],
                          !.UseCookieJar = s[2], !.Cookies = k] :
        j \in {"nil", "value", "unmarshalable"},
        f \in Optional({g \in FileLists : \A i \in DOMAIN g :
                            g[i].FileContents = "ok" /\ g[i].FieldName = ""}),
        a \in Optional(AuthLists),
        c \in {"nil", "ctx"}, b \in {"nil", "accept", "reject"},
        s \in {"nil", "jar"} \X BOOLEAN,
        k \in {<<>>, <<"c1", "c2">>}}

Init == Call({"POST", "PUT"}, {GoodURL, BadURL}, PipelineOptions, {"nil", "session"})

Spec == Init /\ [][Next]_vars

InitBody == Call({"POST", "PUT"}, {GoodURL}, BodyOptions, {"nil"})

SpecBody == InitBody /\ [][Next]_vars

InitURL == Call({"GET"}, URLs, URLOptions, {"nil"})

SpecURL == InitURL /\ [][Next]_vars

InitClient == Call({"GET"}, {GoodURL}, ClientOptions, {"nil", "session"})

SpecClient == InitClient /\ [][Next]_vars

\* ------------------------------------------------------------ claims

Done(step) == step \in Range(log)

\* C1: buildHTTPRequest runs the constructor of the first populated field in
\* the order RequestBody, JSON, XML, Files, Data, none, whatever the later
\* fields hold, and the body of the request it builds is of that kind.
C1_FirstPopulatedFieldWins ==
    encoder # "not run" =>
        /\ roAtCall.RequestBody # "nil" => encoder = "RequestBody"
        /\ roAtCall.RequestBody = "nil" /\ roAtCall.JSON # "nil" => encoder = "JSON"
        /\ roAtCall.RequestBody = "nil" /\ roAtCall.JSON = "nil"
              /\ roAtCall.XML # "nil" => encoder = "XML"
        /\ roAtCall.RequestBody = "nil" /\ roAtCall.JSON = "nil"
              /\ roAtCall.XML = "nil" /\ ~IsNil(roAtCall.Files) => encoder = "Files"
        /\ roAtCall.RequestBody = "nil" /\ roAtCall.JSON = "nil"
              /\ roAtCall.XML = "nil" /\ IsNil(roAtCall.Files)
              /\ ~IsNil(roAtCall.Data) => encoder = "Data"
        /\ roAtCall.RequestBody = "nil" /\ roAtCall.JSON = "nil"
              /\ roAtCall.XML = "nil" /\ IsNil(roAtCall.Files)
              /\ IsNil(roAtCall.Data) => encoder = "none"
        /\ ~IsNil(req) =>
              Val(req).Body.kind \in
                  CASE encoder = "RequestBody" -> {"raw"}
                    [] encoder = "JSON" -> {"json"}
                    [] encoder = "XML" -> {"xml"}
                    [] encoder = "Files" -> {"multipart", "stream", "NoBody"}
                    [] encoder = "Data" -> {"form"}
                    [] OTHER -> {"NoBody"}

\* C1's case: XML, Files and Data are all populated and the XML constructor ran
C1_Witness ==
    /\ encoder = "XML"
    /\ ~IsNil(roAtCall.Files)
    /\ ~IsNil(roAtCall.Data)
    /\ ~IsNil(req)
    /\ Val(req).Body.kind = "xml"

StepRank(step) ==
    CASE step = "client" -> 1
      [] step = "url" -> 2
      [] step = "build" -> 3
      [] step = "headers" -> 4
      [] step = "cookies" -> 5
      [] step = "redirect" -> 6
      [] step = "context" -> 7
      [] step = "hook" -> 8
      [] step = "send" -> 9
      [] OTHER -> 0

\* C2: the steps of buildRequest are taken in the order build, headers,
\* cookies, redirect policy, context, hook, send, each at most once; a send
\* comes after all of them (the context and the hook when there are any), on
\* a request that was built and a client with the redirect policy installed;
\* when the hook returns an error there is no send and buildRequest returns
\* nil and that error.
C2_StepsInOrder ==
    /\ \A i, j \in DOMAIN log : i < j => StepRank(log[i]) < StepRank(log[j])
    /\ Done("send") =>
          /\ Done("build") /\ Done("headers") /\ Done("cookies") /\ Done("redirect")
          /\ roAtCall.Context # "nil" => Done("context")
          /\ roAtCall.BeforeRequest # "nil" =>
                Done("hook") /\ hookError(roAtCall.BeforeRequest) = "nil"
          /\ ~IsNil(req)
          /\ Val(httpClient).CheckRedirect = "installed"
          /\ pc = "done"
    /\ Done("hook") /\ hookError(roAtCall.BeforeRequest) # "nil" =>
          /\ ~Done("send")
          /\ pc = "done"
          /\ resp = "nil"
          /\ err = hookError(roAtCall.BeforeRequest)

\* C2's case: every step up to the hook was taken, and the hook rejected
C2_Witness ==
    /\ pc = "done"
    /\ err = "hook error"
    /\ log = <<"client", "url", "build", "headers", "cookies", "redirect",
               "context", "hook">>

HasMerge == Cardinality(DOMAIN roAtCall.Params) # 0 \/ ~IsNil(roAtCall.QueryStruct)

Malformed(u) ==
    \/ URLParse(u).err # "nil"
    \/ ParseQuery(URLParse(u).u.RawQuery).err # "nil"

\* C3: when a merge runs (Params or QueryStruct) on a malformed URL or on a
\* URL whose query is malformed, URL finalization ends buildRequest with the
\* parse error and a nil response; no request is built or sent.
C3_MalformedURLIsAnError ==
    HasMerge /\ Malformed(userURL) /\ Done("url") =>
        /\ pc = "done"
        /\ err \in {"invalid control character in URL", "invalid URL escape"}
        /\ resp = "nil"
        /\ IsNil(req)
        /\ ~Done("send")

UsedStreamIsNil(files) ==
    IF httpMethod = "POST"
    THEN \E i \in DOMAIN files :
            /\ files[i].FileContents = "nil"
            /\ \A j \in 1..(i - 1) : files[j].FileContents = "ok"
    ELSE Len(files) >= 1 /\ files[1].FileContents = "nil"

\* C4: when the Files constructor runs and an entry it uses has a nil
\* FileContents, construction ends with an error and no request, for POST
\* and for every other verb.
C4_NilStreamIsAnError ==
    encoder = "Files" /\ UsedStreamIsNil(Val(roAtCall.Files)) =>
        /\ pc = "done"
        /\ err # "nil"
        /\ IsNil(req)
        /\ ~Done("send")

\* C5: after createMultiPartPostRequest, every stream it copied from has
\* been closed exactly once, also when the copy failed, and no stream has
\* been closed twice.
C5_CopiedStreamsClosedOnce ==
    encoder = "Files" /\ httpMethod = "POST" =>
        \A i \in DOMAIN streams :
            /\ streams[i].closes <= 1
            /\ streams[i].copies > 0 => streams[i].closes = 1

ForcedType(kind) == IF kind = "JSON" THEN "application/json" ELSE "application/xml"

HandedOn == encoder \in {"JSON", "XML"} /\ (pc \in {"hook", "send"} \/ Done("send"))

\* C6 as claimed: the request handed to the hook and sent has exactly the
\* Content-Type application/json (application/xml) when the JSON (XML)
\* constructor ran, for every Headers map.
C6_ContentTypeForced ==
    HandedOn => HeaderValues(Val(req).Header, "Content-Type") = <<ForcedType(encoder)>>

CallerContentTypes ==
    {roAtCall.Headers[k] :
        k \in {x \in DOMAIN roAtCall.Headers : CanonicalKey(x) = "Content-Type"}}

\* C6 as amended: the request handed to the hook and sent has exactly one
\* Content-Type value; it is application/json (application/xml) when the
\* Headers map has no Content-Type entry, under any spelling, and the value
\* of such an entry when it has one.
C6_ContentTypeForcedUnlessCallerSetsIt ==
    HandedOn =>
        /\ Len(HeaderValues(Val(req).Header, "Content-Type")) = 1
        /\ HeaderValues(Val(req).Header, "Content-Type")[1] \in
              (IF CallerContentTypes = {} THEN {ForcedType(encoder)}
               ELSE CallerContentTypes)

\* C6's case: a JSON request about to be sent whose Headers map had a
\* Content-Type entry
C6_Witness ==
    /\ pc = "send"
    /\ encoder = "JSON"
    /\ "Content-Type" \in DOMAIN roAtCall.Headers
    /\ Val(req).Header["Content-Type"] = <<roAtCall.Headers["Content-Type"]>>

MergedValues(old, params) ==
    [k \in DOMAIN old \cup {<<x>> : x \in DOMAIN params} |->
        IF \E x \in DOMAIN params : k = <<x>>
        THEN <<params[CHOOSE x \in DOMAIN params : k = <<x>>]>>
        ELSE old[k]]

\* C7: for a parseable URL (here: with a well-formed query, so that the
\* failure of C3 plays no part) and a non-empty Params map, the URL that
\* buildURLParams returns has the scheme, host and path of the input, and
\* its query holds the map's value for every key of the map and the
\* original values for every other key.
C7_ParamsMergedIntoQuery ==
    /\ Done("url")
    /\ Cardinality(DOMAIN roAtCall.Params) # 0
    /\ ~Malformed(userURL)
    => /\ URLParse(url).err = "nil"
       /\ URLParse(url).u.base = URLParse(userURL).u.base
       /\ ParseQuery(URLParse(url).u.RawQuery).err = "nil"
       /\ ParseQuery(URLParse(url).u.RawQuery).values =
             MergedValues(ParseQuery(URLParse(userURL).u.RawQuery).values,
                          roAtCall.Params)

NoTransportPolicy(o) ==
    /\ ~o.InsecureSkipVerify
    /\ ~o.DisableCompression
    /\ DOMAIN o.Proxies = {}
    /\ o.TLSHandshakeTimeout = 0
    /\ o.DialTimeout = 0
    /\ o.DialKeepAlive = 0
    /\ o.RequestTimeout = 0
    /\ o.Cookies = <<>>
    /\ o.LocalAddr = "nil"

\* C8: an explicit client (the session's, else Options.HTTPClient) is the
\* client used, whatever the policy fields hold; without one, the shared
\* default client is used exactly when no policy field is set and there is
\* no jar opt-in (neither the flag nor an explicit CookieJar), and a client
\* is built in every other case.
C8_ClientSelection ==
    ~IsNil(httpClient) =>
        IF clientArg # "nil" THEN Val(httpClient).id = clientArg
        ELSE IF roAtCall.HTTPClient # "nil" THEN Val(httpClient).id = roAtCall.HTTPClient
        ELSE IF /\ NoTransportPolicy(roAtCall)
                /\ ~roAtCall.UseCookieJar
                /\ roAtCall.CookieJar = "nil"
        THEN Val(httpClient).id = "http.DefaultClient"
        ELSE Val(httpClient).id = "built"

\* C8's case: nothing but an explicit CookieJar asks for a client of its own
C8_Witness ==
    /\ ~IsNil(httpClient)
    /\ Val(httpClient).id = "built"
    /\ Val(httpClient).Jar = "jar"
    /\ NoTransportPolicy(roAtCall)
    /\ ~roAtCall.UseCookieJar
    /\ roAtCall.CookieJar = "jar"
    /\ clientArg = "nil"

\* C9: when buildRequest has returned, the caller's Options hold what they
\* held at the call.
C9_OptionsUnchanged == pc \in {"done", "panic"} /\ ~roIsNil => ro = roAtCall

\* C10: request construction never ends in a panic.
C10_NoPanic == pc # "panic"

====
